---- MODULE Spec2Model ----
(***************************************************************************)
(* Model of the Node.js compatibility-mode resolver of wrangler            *)
(* (getNodeCompat, computeWorkerdCompatibilityFlags and the Flags class).  *)
(*                                                                         *)
(* A string that the code compares with < or >= (a compatibility date) is  *)
(* a sequence of UTF-16 code units; a flag token, which the code only      *)
(* tests for equality and prefixes with "no_", is a TLA+ string.           *)
(***************************************************************************)
EXTENDS Integers, Sequences, FiniteSets, TLC

(***************************************************************************)
(* Bounds of the model.                                                    *)
(***************************************************************************)
\* longest compatibilityFlags list that is enumerated
MaxLen == 3

\* number of getNodeCompat calls one caller makes one after the other
MaxCalls == 3

\* number of times the command "pages project delete" is run
MaxRuns == 2

\* number of events handed to one metrics dispatcher
MaxEvents == 2

(***************************************************************************)
(* Strings as code units.                                                  *)
(***************************************************************************)
\* code unit of the decimal digit n
Digit(n) == 48 + n

\* code unit of "-"
Hyphen == 45

\* the zero-padded YYYY-MM-DD string of a calendar date
IsoDate(y, m, d) ==
    << Digit(y \div 1000), Digit((y \div 100) % 10), Digit((y \div 10) % 10),
       Digit(y % 10), Hyphen, Digit(m \div 10), Digit(m % 10), Hyphen,
       Digit(d \div 10), Digit(d % 10) >>

\* a < b on two JavaScript strings: the first differing code unit decides,
\* and a proper prefix is smaller
StrLess(a, b) ==
    \E k \in 1..Len(b) :
        /\ k <= Len(a) + 1
        /\ \A i \in 1..(k - 1) : a[i] = b[i]
        /\ (k = Len(a) + 1 \/ a[k] < b[k])

\* variant: > in place of >=
StrGe_Strict(a, b) == StrLess(b, a)

\* a >= b on two JavaScript strings
StrGe(a, b) == ~StrLess(a, b)

(***************************************************************************)
(* Values of the program.                                                  *)
(***************************************************************************)
\* the mode null of NodeJSCompatMode
Null == "null"

\* type NodeJSCompatMode = "legacy" | "als" | "v1" | "v2" | null
NodeJSCompatMode == {"legacy", "als", "v1", "v2", Null}

\* default value of the parameter compatibilityDate: "2000-01-01"
DefaultCompatibilityDate == IsoDate(2000, 1, 1)

\* the date literal of the implication nodejs_compat => nodejs_compat_v2:
\* "2024-09-23"
NodejsCompatV2Date == IsoDate(2024, 9, 23)

\* the literal "experimental:nodejs_compat_v2"
ExperimentalToken == "experimental:nodejs_compat_v2"

\* `no_${name}`
NoFlagName(name) == "no_" \o name

(***************************************************************************)
(* Inputs that are enumerated.                                             *)
(***************************************************************************)
\* the well-formed dates: around the threshold, far before and far after
IsoDates ==
    { IsoDate(2000, 1, 1), IsoDate(2024, 9, 22), IsoDate(2024, 9, 23),
      IsoDate(2024, 9, 24), IsoDate(2025, 1, 1) }

\* date strings that are not zero-padded ISO dates: "", "2024-9-30", "next"
MalformedDates ==
    { << >>,
      << 50, 48, 50, 52, 45, 57, 45, 51, 48 >>,
      << 110, 101, 120, 116 >> }

DateStrings == IsoDates \cup MalformedDates

\* the argument compatibilityDate: a string, or undefined
Undefined == [given |-> FALSE, val |-> << >>]

Some(v) == [given |-> TRUE, val |-> v]

DateArgs == {Undefined} \cup { Some(d) : d \in DateStrings }

\* the tokens of compatibilityFlags
FlagNames == {"nodejs_als", "nodejs_compat", "nodejs_compat_v2"}

Tokens ==
    FlagNames \cup { NoFlagName(n) : n \in FlagNames }
        \cup { ExperimentalToken, NoFlagName(ExperimentalToken), "unknown_flag" }

FlagLists == UNION { [1..n -> Tokens] : n \in 0..MaxLen }

\* the argument opts: omitted, {}, {nodeCompat: false}, {nodeCompat: true}
OptsOmitted == [given |-> FALSE, hasNodeCompat |-> FALSE, nodeCompat |-> FALSE]

OptsArgs ==
    { OptsOmitted,
      [given |-> TRUE, hasNodeCompat |-> FALSE, nodeCompat |-> FALSE],
      [given |-> TRUE, hasNodeCompat |-> TRUE, nodeCompat |-> FALSE],
      [given |-> TRUE, hasNodeCompat |-> TRUE, nodeCompat |-> TRUE] }

(***************************************************************************)
(* The pure parts of the code.                                             *)
(***************************************************************************)
\* variant: only the head of the list is looked at
Includes_FirstOnly(list, tok) == Len(list) > 0 /\ list[1] = tok

\* Array.prototype.includes on a list of strings
Includes(list, tok) == \E i \in 1..Len(list) : list[i] = tok

\* parameter default: compatibilityDate: string = "2000-01-01"
DateOrDefault(dateArg) ==
    IF dateArg.given THEN dateArg.val ELSE DefaultCompatibilityDate

\* variant: the default of nodeCompat is true
NodeCompatOrDefault_DefaultTrue(opts) ==
    IF opts.given /\ opts.hasNodeCompat THEN opts.nodeCompat ELSE TRUE

\* const { nodeCompat = false } = opts ?? {}
NodeCompatOrDefault(opts) ==
    IF opts.given /\ opts.hasNodeCompat THEN opts.nodeCompat ELSE FALSE

\* variant: the no_ form is not looked up
FlagValue_NoNegation(flags, name) == Includes(flags, name)

\* variant: the last of the tokens name and no_name decides
FlagValue_LastWins(flags, name) ==
    \E i \in 1..Len(flags) :
        /\ flags[i] = name
        /\ \A j \in (i + 1)..Len(flags) : flags[j] # NoFlagName(name)

\* value of the flag object that Flags.get(name) creates
FlagValue(flags, name) ==
    Includes(flags, name) /\ ~Includes(flags, NoFlagName(name))

\* variant: the date test is strict
ImpliedValue_Strict(value, otherValue, date, compatibilityDate) ==
    value \/ (otherValue /\ StrLess(compatibilityDate, date))

\* variant: = in place of ||=
ImpliedValue_Overwrite(value, otherValue, date, compatibilityDate) ==
    otherValue /\ StrGe(date, compatibilityDate)

\* the right-hand side of  flag.value ||= other.value && date >= this.compatibilityDate
ImpliedValue(value, otherValue, date, compatibilityDate) ==
    value \/ (otherValue /\ StrGe(date, compatibilityDate))

\* variant: nodejs_compat is tested before nodejs_compat_v2
SelectMode_V1First(hasV2, hasCompat, hasAls, legacy) ==
    IF hasCompat THEN "v1"
    ELSE IF hasV2 THEN "v2"
    ELSE IF hasAls THEN "als"
    ELSE IF legacy THEN "legacy"
    ELSE Null

\* variant: mode is declared without its initial value null
SelectMode_Uninitialised(hasV2, hasCompat, hasAls, legacy) ==
    IF hasV2 THEN "v2"
    ELSE IF hasCompat THEN "v1"
    ELSE IF hasAls THEN "als"
    ELSE IF legacy THEN "legacy"
    ELSE "undefined"

\* variant: nodejs_als is tested before nodejs_compat
SelectMode_AlsBeforeV1(hasV2, hasCompat, hasAls, legacy) ==
    IF hasV2 THEN "v2"
    ELSE IF hasAls THEN "als"
    ELSE IF hasCompat THEN "v1"
    ELSE IF legacy THEN "legacy"
    ELSE Null

\* the if / else-if chain of getNodeCompat
SelectMode(hasV2, hasCompat, hasAls, legacy) ==
    IF hasV2 THEN "v2"
    ELSE IF hasCompat THEN "v1"
    ELSE IF hasAls THEN "als"
    ELSE IF legacy THEN "legacy"
    ELSE Null

\* variant: the experimental flag is read through Flags.get
ExperimentalValue_ViaGet(flags) ==
    Includes(flags, ExperimentalToken)
        /\ ~Includes(flags, NoFlagName(ExperimentalToken))

\* hasExperimentalNodejsCompatV2Flag
ExperimentalValue(flags) == Includes(flags, ExperimentalToken)

\* computeWorkerdCompatibilityFlags as one expression
ComputeWorkerdCompatibilityFlags(flags, date) ==
    [hasNodejsAlsFlag |-> FlagValue(flags, "nodejs_als"),
     hasNodejsCompatFlag |-> FlagValue(flags, "nodejs_compat"),
     hasNodejsCompatV2Flag |->
         ImpliedValue(FlagValue(flags, "nodejs_compat_v2"),
                      FlagValue(flags, "nodejs_compat"),
                      NodejsCompatV2Date, date),
     hasExperimentalNodejsCompatV2Flag |-> ExperimentalValue(flags)]

\* getNodeCompat as one expression: the object it returns
GetNodeCompat(dateArg, flags, opts) ==
    LET f == ComputeWorkerdCompatibilityFlags(flags, DateOrDefault(dateArg))
    IN  [mode |-> SelectMode(f.hasNodejsCompatV2Flag, f.hasNodejsCompatFlag,
                             f.hasNodejsAlsFlag,
                             NodeCompatOrDefault(opts) = TRUE),
         hasNodejsAlsFlag |-> f.hasNodejsAlsFlag,
         hasNodejsCompatFlag |-> f.hasNodejsCompatFlag,
         hasNodejsCompatV2Flag |-> f.hasNodejsCompatV2Flag,
         hasExperimentalNodejsCompatV2Flag |->
             f.hasExperimentalNodejsCompatV2Flag]

(***************************************************************************)
(* State: one getNodeCompat call per caller.                               *)
(***************************************************************************)
VARIABLES
    pc,                 \* position of the call
    args,               \* the arguments as passed: [date, flags, opts]
    compatibilityDate,  \* parameter compatibilityDate after defaulting
    nodeCompat,         \* const nodeCompat
    flagsObj,           \* the Flags instance: [flags, compatibilityDate]
    nodejsCompatFlag,   \* flag object of flags.get("nodejs_compat")
    nodejsCompatV2Flag, \* flag object of flags.get("nodejs_compat_v2")
    computed,           \* the object literal being built
    mode,               \* let mode
    result,             \* the returned object
    calls,              \* number of calls that have returned to the caller
    history,            \* the calls that have returned, in order: arguments, result
    del,                \* a run of the command "pages project delete"
    met,                \* a metrics dispatcher and the events handed to it
    cmp,                \* one evaluation of the date test on two calendar dates
    dep                 \* a run of deployHandler

vars == << pc, args, compatibilityDate, nodeCompat, flagsObj,
           nodejsCompatFlag, nodejsCompatV2Flag, computed, mode, result,
           calls, history, del, met, cmp, dep >>

\* the state of the commands around the resolver
cliVars == << del, met, cmp, dep >>

\* the state of the resolver
resolverVars == << pc, args, compatibilityDate, nodeCompat, flagsObj,
                   nodejsCompatFlag, nodejsCompatV2Flag, computed, mode,
                   result, calls, history >>

\* no command "pages project delete" is running
DelIdle ==
    [pc |-> "idle", name |-> "", yes |-> FALSE, prompts |-> << >>,
     answer |-> "none", requests |-> << >>, out |-> << >>, runs |-> 0,
     served |-> << >>]

\* no metrics dispatcher exists
MetIdle ==
    [pc |-> "idle", sendMetrics |-> FALSE, hasKey |-> FALSE, netOk |-> FALSE,
     type |-> "", name |-> "", requests |-> << >>, pending |-> << >>,
     debug |-> << >>, warn |-> << >>, settled |-> "none", events |-> 0]

\* no date test is being evaluated
CmpIdle ==
    [pc |-> "idle", a |-> << >>, b |-> << >>, ge |-> FALSE, le |-> FALSE]

\* an option or configuration field that was not given (undefined), by type
NoString == [given |-> FALSE, val |-> ""]
NoBoolean == [given |-> FALSE, val |-> FALSE]
NoDate == [given |-> FALSE, val |-> << >>]
NoList == [given |-> FALSE, val |-> << >>]

\* the parsed arguments of a deploy command in which no option was given
\* (latest has the default false); script stands for args.script without
\* args.config, the case in which findWranglerToml is called
NoDeployArgs ==
    [publish |-> FALSE, script |-> FALSE, public |-> NoString,
     experimentalPublic |-> NoString,
     legacyAssets |-> NoString, site |-> NoString, latest |-> FALSE,
     dryRun |-> NoBoolean, bundle |-> NoBoolean,
     compatibilityDate |-> NoDate, compatibilityFlags |-> NoList,
     nodeCompat |-> NoBoolean]

\* a configuration with none of the fields the handler looks at
NoConfig ==
    [legacy_assets |-> FALSE, site |-> FALSE, usage_model |-> NoString,
     no_bundle |-> NoBoolean]

\* deploy has not been called
NoProps ==
    [called |-> FALSE, accountId |-> NoString, compatibilityDate |-> NoDate,
     compatibilityFlags |-> NoList, nodeCompat |-> NoBoolean,
     isWorkersSite |-> FALSE, dryRun |-> NoBoolean, noBundle |-> FALSE,
     assetPaths |-> ""]

\* the clock has not been read
NoClock == << >>

\* deployHandler(args) at the given position, nothing done yet
DepAt(position, a) ==
    [pc |-> position, args |-> a, config |-> NoConfig, accountId |-> NoString,
     clock |-> NoClock, trace |-> << >>, warnings |-> << >>,
     error |-> "", props |-> NoProps]

\* deployHandler is not running
DepIdle == DepAt("idle", NoDeployArgs)

\* the caller of the sequential specifications
MainCaller == "main"

\* a second caller, whose call interleaves with the first one's
OtherCaller == "other"

Callers == {MainCaller, OtherCaller}

NoFlagsObj == [flags |-> << >>, compatibilityDate |-> << >>]

NoFlag == [value |-> FALSE]

NoComputed ==
    [hasNodejsAlsFlag |-> FALSE, hasNodejsCompatFlag |-> FALSE,
     hasNodejsCompatV2Flag |-> FALSE,
     hasExperimentalNodejsCompatV2Flag |-> FALSE]

NoResult ==
    [mode |-> Null, hasNodejsAlsFlag |-> FALSE, hasNodejsCompatFlag |-> FALSE,
     hasNodejsCompatV2Flag |-> FALSE,
     hasExperimentalNodejsCompatV2Flag |-> FALSE]

ArgSets == [date : DateArgs, flags : FlagLists, opts : OptsArgs]

\* arguments of a caller that makes no call
IdleArgs == [date |-> Undefined, flags |-> << >>, opts |-> OptsOmitted]

\* the arguments of the calls that follow one another or interleave
FewArgs ==
    [date : {Some(IsoDate(2024, 9, 22)), Some(IsoDate(2025, 1, 1))},
     flags : {<< >>, << "nodejs_compat" >>, << "nodejs_compat_v2" >>,
              << "nodejs_als", "no_nodejs_compat", "nodejs_compat" >>},
     opts : {OptsOmitted,
             [given |-> TRUE, hasNodeCompat |-> TRUE, nodeCompat |-> TRUE]}]

\* the main caller is about to call getNodeCompat with some arguments
Init ==
    /\ pc = [c \in Callers |-> IF c = MainCaller THEN "call" ELSE "idle"]
    /\ \E a \in ArgSets :
           args = [c \in Callers |-> IF c = MainCaller THEN a ELSE IdleArgs]
    /\ compatibilityDate = [c \in Callers |-> << >>]
    /\ nodeCompat = [c \in Callers |-> FALSE]
    /\ flagsObj = [c \in Callers |-> NoFlagsObj]
    /\ nodejsCompatFlag = [c \in Callers |-> NoFlag]
    /\ nodejsCompatV2Flag = [c \in Callers |-> NoFlag]
    /\ computed = [c \in Callers |-> NoComputed]
    /\ mode = [c \in Callers |-> Null]
    /\ result = [c \in Callers |-> NoResult]
    /\ calls = [c \in Callers |-> 0]
    /\ history = << >>
    /\ del = DelIdle
    /\ met = MetIdle
    /\ cmp = CmpIdle
    /\ dep = DepIdle

\* variant: the date is validated on entry and a malformed one throws
Enter_Validating(c) ==
    /\ pc[c] = "call"
    /\ compatibilityDate' =
           [compatibilityDate EXCEPT ![c] = DateOrDefault(args[c].date)]
    /\ nodeCompat' = [nodeCompat EXCEPT ![c] = NodeCompatOrDefault(args[c].opts)]
    /\ pc' = [pc EXCEPT ![c] =
           IF Len(compatibilityDate'[c]) = 10 THEN "newFlags" ELSE "threw"]
    /\ UNCHANGED << args, flagsObj, nodejsCompatFlag, nodejsCompatV2Flag,
                    computed, mode, result >>
    /\ UNCHANGED << calls, history >>
    /\ UNCHANGED cliVars

\* entry of getNodeCompat: parameter default and destructuring of opts
Enter(c) ==
    /\ pc[c] = "call"
    /\ compatibilityDate' =
           [compatibilityDate EXCEPT ![c] = DateOrDefault(args[c].date)]
    /\ nodeCompat' = [nodeCompat EXCEPT ![c] = NodeCompatOrDefault(args[c].opts)]
    /\ pc' = [pc EXCEPT ![c] = "newFlags"]
    /\ UNCHANGED << args, flagsObj, nodejsCompatFlag, nodejsCompatV2Flag,
                    computed, mode, result >>
    /\ UNCHANGED << calls, history >>
    /\ UNCHANGED cliVars

\* const flags = new Flags(compatibilityFlags, compatibilityDate)
NewFlags(c) ==
    /\ pc[c] = "newFlags"
    /\ flagsObj' = [flagsObj EXCEPT ![c] =
           [flags |-> args[c].flags, compatibilityDate |-> compatibilityDate[c]]]
    /\ pc' = [pc EXCEPT ![c] = "getCompat"]
    /\ UNCHANGED << args, compatibilityDate, nodeCompat, nodejsCompatFlag,
                    nodejsCompatV2Flag, computed, mode, result >>
    /\ UNCHANGED << calls, history >>
    /\ UNCHANGED cliVars

\* variant: the flag object of nodejs_compat is kept in one place that all
\* calls share
GetNodejsCompat_SharedFlag(c) ==
    /\ pc[c] = "getCompat"
    /\ nodejsCompatFlag' = [d \in Callers |->
           [value |-> FlagValue(flagsObj[c].flags, "nodejs_compat")]]
    /\ pc' = [pc EXCEPT ![c] = "getAls"]
    /\ UNCHANGED << args, compatibilityDate, nodeCompat, flagsObj,
                    nodejsCompatV2Flag, computed, mode, result >>
    /\ UNCHANGED << calls, history >>
    /\ UNCHANGED cliVars

\* const nodejsCompatFlag = flags.get("nodejs_compat")
GetNodejsCompat(c) ==
    /\ pc[c] = "getCompat"
    /\ nodejsCompatFlag' = [nodejsCompatFlag EXCEPT ![c] =
           [value |-> FlagValue(flagsObj[c].flags, "nodejs_compat")]]
    /\ pc' = [pc EXCEPT ![c] = "getAls"]
    /\ UNCHANGED << args, compatibilityDate, nodeCompat, flagsObj,
                    nodejsCompatV2Flag, computed, mode, result >>
    /\ UNCHANGED << calls, history >>
    /\ UNCHANGED cliVars

\* hasNodejsAlsFlag: flags.get("nodejs_als").value,
\* hasNodejsCompatFlag: nodejsCompatFlag.value
GetNodejsAls(c) ==
    /\ pc[c] = "getAls"
    /\ computed' = [computed EXCEPT
           ![c].hasNodejsAlsFlag = FlagValue(flagsObj[c].flags, "nodejs_als"),
           ![c].hasNodejsCompatFlag = nodejsCompatFlag[c].value]
    /\ pc' = [pc EXCEPT ![c] = "getV2"]
    /\ UNCHANGED << args, compatibilityDate, nodeCompat, flagsObj,
                    nodejsCompatFlag, nodejsCompatV2Flag, mode, result >>
    /\ UNCHANGED << calls, history >>
    /\ UNCHANGED cliVars

\* variant: the flag object of nodejs_compat_v2 is created by the first call
\* and reused by the later ones
GetNodejsCompatV2_Cached(c) ==
    /\ pc[c] = "getV2"
    /\ nodejsCompatV2Flag' = [nodejsCompatV2Flag EXCEPT ![c] =
           IF calls[c] = 0
           THEN [value |-> FlagValue(flagsObj[c].flags, "nodejs_compat_v2")]
           ELSE @]
    /\ pc' = [pc EXCEPT ![c] = "implied"]
    /\ UNCHANGED << args, compatibilityDate, nodeCompat, flagsObj,
                    nodejsCompatFlag, computed, mode, result >>
    /\ UNCHANGED << calls, history >>
    /\ UNCHANGED cliVars

\* flags.get("nodejs_compat_v2")
GetNodejsCompatV2(c) ==
    /\ pc[c] = "getV2"
    /\ nodejsCompatV2Flag' = [nodejsCompatV2Flag EXCEPT ![c] =
           [value |-> FlagValue(flagsObj[c].flags, "nodejs_compat_v2")]]
    /\ pc' = [pc EXCEPT ![c] = "implied"]
    /\ UNCHANGED << args, compatibilityDate, nodeCompat, flagsObj,
                    nodejsCompatFlag, computed, mode, result >>
    /\ UNCHANGED << calls, history >>
    /\ UNCHANGED cliVars

\* variant: an implied nodejs_compat_v2 is also pushed onto the flag list
ImpliedByAfterDate_PushesFlag(c) ==
    /\ pc[c] = "implied"
    /\ nodejsCompatV2Flag' = [nodejsCompatV2Flag EXCEPT ![c].value =
           ImpliedValue(nodejsCompatV2Flag[c].value, nodejsCompatFlag[c].value,
                        NodejsCompatV2Date, flagsObj[c].compatibilityDate)]
    /\ computed' = [computed EXCEPT ![c].hasNodejsCompatV2Flag =
           nodejsCompatV2Flag'[c].value]
    /\ args' = [args EXCEPT ![c].flags =
           IF nodejsCompatV2Flag'[c].value /\ ~nodejsCompatV2Flag[c].value
           THEN Append(@, "nodejs_compat_v2") ELSE @]
    /\ flagsObj' = [flagsObj EXCEPT ![c].flags = args'[c].flags]
    /\ pc' = [pc EXCEPT ![c] = "experimental"]
    /\ UNCHANGED << compatibilityDate, nodeCompat, nodejsCompatFlag, mode,
                    result >>
    /\ UNCHANGED << calls, history >>
    /\ UNCHANGED cliVars

\* variant: an implied nodejs_compat_v2 takes the place of nodejs_compat
ImpliedByAfterDate_ReplacesCompat(c) ==
    /\ pc[c] = "implied"
    /\ nodejsCompatV2Flag' = [nodejsCompatV2Flag EXCEPT ![c].value =
           ImpliedValue(nodejsCompatV2Flag[c].value, nodejsCompatFlag[c].value,
                        NodejsCompatV2Date, flagsObj[c].compatibilityDate)]
    /\ nodejsCompatFlag' = [nodejsCompatFlag EXCEPT ![c].value =
           @ /\ ~(nodejsCompatV2Flag'[c].value /\ ~nodejsCompatV2Flag[c].value)]
    /\ computed' = [computed EXCEPT
           ![c].hasNodejsCompatV2Flag = nodejsCompatV2Flag'[c].value,
           ![c].hasNodejsCompatFlag = nodejsCompatFlag'[c].value]
    /\ pc' = [pc EXCEPT ![c] = "experimental"]
    /\ UNCHANGED << args, compatibilityDate, nodeCompat, flagsObj, mode,
                    result >>
    /\ UNCHANGED << calls, history >>
    /\ UNCHANGED cliVars

\* variant: the implication looks at the bare token nodejs_compat, not at
\* the flag object
ImpliedByAfterDate_BareToken(c) ==
    /\ pc[c] = "implied"
    /\ nodejsCompatV2Flag' = [nodejsCompatV2Flag EXCEPT ![c].value =
           ImpliedValue(nodejsCompatV2Flag[c].value,
                        Includes(flagsObj[c].flags, "nodejs_compat"),
                        NodejsCompatV2Date, flagsObj[c].compatibilityDate)]
    /\ computed' = [computed EXCEPT ![c].hasNodejsCompatV2Flag =
           nodejsCompatV2Flag'[c].value]
    /\ pc' = [pc EXCEPT ![c] = "experimental"]
    /\ UNCHANGED << args, compatibilityDate, nodeCompat, flagsObj,
                    nodejsCompatFlag, mode, result >>
    /\ UNCHANGED << calls, history >>
    /\ UNCHANGED cliVars

\* .impliedByAfterDate(nodejsCompatFlag, "2024-09-23").value
ImpliedByAfterDate(c) ==
    /\ pc[c] = "implied"
    /\ nodejsCompatV2Flag' = [nodejsCompatV2Flag EXCEPT ![c].value =
           ImpliedValue(nodejsCompatV2Flag[c].value, nodejsCompatFlag[c].value,
                        NodejsCompatV2Date, flagsObj[c].compatibilityDate)]
    /\ computed' = [computed EXCEPT ![c].hasNodejsCompatV2Flag =
           nodejsCompatV2Flag'[c].value]
    /\ pc' = [pc EXCEPT ![c] = "experimental"]
    /\ UNCHANGED << args, compatibilityDate, nodeCompat, flagsObj,
                    nodejsCompatFlag, mode, result >>
    /\ UNCHANGED << calls, history >>
    /\ UNCHANGED cliVars

\* hasExperimentalNodejsCompatV2Flag: compatibilityFlags.includes(...)
IncludesExperimental(c) ==
    /\ pc[c] = "experimental"
    /\ computed' = [computed EXCEPT ![c].hasExperimentalNodejsCompatV2Flag =
           ExperimentalValue(args[c].flags)]
    /\ pc' = [pc EXCEPT ![c] = "mode"]
    /\ UNCHANGED << args, compatibilityDate, nodeCompat, flagsObj,
                    nodejsCompatFlag, nodejsCompatV2Flag, mode, result >>
    /\ UNCHANGED << calls, history >>
    /\ UNCHANGED cliVars

\* const legacy = nodeCompat === true; let mode = null; if ... else if ...
ChooseMode(c) ==
    /\ pc[c] = "mode"
    /\ mode' = [mode EXCEPT ![c] =
           SelectMode(computed[c].hasNodejsCompatV2Flag,
                      computed[c].hasNodejsCompatFlag,
                      computed[c].hasNodejsAlsFlag,
                      nodeCompat[c] = TRUE)]
    /\ pc' = [pc EXCEPT ![c] = "return"]
    /\ UNCHANGED << args, compatibilityDate, nodeCompat, flagsObj,
                    nodejsCompatFlag, nodejsCompatV2Flag, computed, result >>
    /\ UNCHANGED << calls, history >>
    /\ UNCHANGED cliVars

\* return { mode, hasNodejsAlsFlag, ... }
Return(c) ==
    /\ pc[c] = "return"
    /\ result' = [result EXCEPT ![c] =
           [mode |-> mode[c],
            hasNodejsAlsFlag |-> computed[c].hasNodejsAlsFlag,
            hasNodejsCompatFlag |-> computed[c].hasNodejsCompatFlag,
            hasNodejsCompatV2Flag |-> computed[c].hasNodejsCompatV2Flag,
            hasExperimentalNodejsCompatV2Flag |->
                computed[c].hasExperimentalNodejsCompatV2Flag]]
    /\ pc' = [pc EXCEPT ![c] = "done"]
    /\ UNCHANGED << args, compatibilityDate, nodeCompat, flagsObj,
                    nodejsCompatFlag, nodejsCompatV2Flag, computed, mode >>
    /\ calls' = [calls EXCEPT ![c] = @ + 1]
    /\ history' = Append(history, [args |-> args[c], result |-> result'[c]])
    /\ UNCHANGED cliVars

\* the caller calls getNodeCompat again, with the arguments a
CallAgain(c, a) ==
    /\ pc[c] = "done"
    /\ calls[c] < MaxCalls
    /\ args' = [args EXCEPT ![c] = a]
    /\ pc' = [pc EXCEPT ![c] = "call"]
    /\ UNCHANGED << compatibilityDate, nodeCompat, flagsObj, nodejsCompatFlag,
                    nodejsCompatV2Flag, computed, mode, result, calls,
                    history >>
    /\ UNCHANGED cliVars

Next ==
    \E c \in Callers :
        \/ Enter(c)
        \/ NewFlags(c)
        \/ GetNodejsCompat(c)
        \/ GetNodejsAls(c)
        \/ GetNodejsCompatV2(c)
        \/ ImpliedByAfterDate(c)
        \/ IncludesExperimental(c)
        \/ ChooseMode(c)
        \/ Return(c)

Spec == Init /\ [][Next]_vars

\* one caller that calls again and again
InitSeq ==
    /\ Init
    /\ args[MainCaller] \in FewArgs

NextSeq ==
    \/ Next
    \/ \E a \in FewArgs : CallAgain(MainCaller, a)

SpecSeq == InitSeq /\ [][NextSeq]_vars

\* two callers, one call each, whose steps interleave
InitConc ==
    /\ pc = [c \in Callers |-> "call"]
    /\ args \in [Callers -> FewArgs]
    /\ compatibilityDate = [c \in Callers |-> << >>]
    /\ nodeCompat = [c \in Callers |-> FALSE]
    /\ flagsObj = [c \in Callers |-> NoFlagsObj]
    /\ nodejsCompatFlag = [c \in Callers |-> NoFlag]
    /\ nodejsCompatV2Flag = [c \in Callers |-> NoFlag]
    /\ computed = [c \in Callers |-> NoComputed]
    /\ mode = [c \in Callers |-> Null]
    /\ result = [c \in Callers |-> NoResult]
    /\ calls = [c \in Callers |-> 0]
    /\ history = << >>
    /\ del = DelIdle
    /\ met = MetIdle
    /\ cmp = CmpIdle
    /\ dep = DepIdle

SpecConc == InitConc /\ [][Next]_vars

(***************************************************************************)
(* The command "wrangler pages project delete <name> [--yes]".  Its code   *)
(* is not among the sources; the steps are those that its tests observe:   *)
(* the confirmation prompt, the DELETE request and the two lines printed.  *)
(***************************************************************************)
ProjectNames == {"some-project-name", "some-project-name-2", "my-site"}

\* no resolver call is made
ResolverIdle ==
    /\ pc = [c \in Callers |-> "idle"]
    /\ args = [c \in Callers |-> IdleArgs]
    /\ compatibilityDate = [c \in Callers |-> << >>]
    /\ nodeCompat = [c \in Callers |-> FALSE]
    /\ flagsObj = [c \in Callers |-> NoFlagsObj]
    /\ nodejsCompatFlag = [c \in Callers |-> NoFlag]
    /\ nodejsCompatV2Flag = [c \in Callers |-> NoFlag]
    /\ computed = [c \in Callers |-> NoComputed]
    /\ mode = [c \in Callers |-> Null]
    /\ result = [c \in Callers |-> NoResult]
    /\ calls = [c \in Callers |-> 0]
    /\ history = << >>

\* the command line has been parsed: a project name and the option --yes
\* served: the projects the server was asked to delete by the runs so far
DelRun(n, y, r, served) ==
    [pc |-> "start", name |-> n, yes |-> y, prompts |-> << >>,
     answer |-> "none", requests |-> << >>, out |-> << >>, runs |-> r,
     served |-> served]

InitDelete ==
    /\ ResolverIdle
    /\ met = MetIdle
    /\ cmp = CmpIdle
    /\ dep = DepIdle
    /\ \E n \in ProjectNames : \E y \in BOOLEAN : del = DelRun(n, y, 1, << >>)

\* args.yes || (await confirm(`Are you sure you want to delete "<name>"? ...`))
DeleteStart ==
    /\ del.pc = "start"
    /\ del' = IF del.yes
              THEN [del EXCEPT !.pc = "delete"]
              ELSE [del EXCEPT !.pc = "confirm",
                               !.prompts = Append(@, del.name)]
    /\ UNCHANGED << resolverVars, met, cmp, dep >>

\* variant: the answer to the prompt is not looked at
DeleteAnswer_Ignored(b) ==
    /\ del.pc = "confirm"
    /\ del' = [del EXCEPT !.answer = IF b THEN "confirmed" ELSE "refused",
                          !.pc = "delete"]
    /\ UNCHANGED << resolverVars, met, cmp, dep >>

\* the user answers the prompt
DeleteAnswer(b) ==
    /\ del.pc = "confirm"
    /\ del' = [del EXCEPT !.answer = IF b THEN "confirmed" ELSE "refused",
                          !.pc = IF b THEN "delete" ELSE "exit"]
    /\ UNCHANGED << resolverVars, met, cmp, dep >>

\* "Deleting <name>" is printed and the DELETE request is sent
DeleteSend ==
    /\ del.pc = "delete"
    /\ del' = [del EXCEPT
           !.out = Append(@, << "Deleting", del.name >>),
           !.requests = Append(@, [method |-> "DELETE", project |-> del.name]),
           !.served = Append(@, del.name),
           !.pc = "await"]
    /\ UNCHANGED << resolverVars, met, cmp, dep >>

\* the request has succeeded: "Successfully deleted <name>" is printed
DeleteDone ==
    /\ del.pc = "await"
    /\ del' = [del EXCEPT
           !.out = Append(@, << "Successfully deleted", del.name >>),
           !.pc = "exit"]
    /\ UNCHANGED << resolverVars, met, cmp, dep >>

\* the command is run again
DeleteRunAgain(n, y) ==
    /\ del.pc = "exit"
    /\ del.runs < MaxRuns
    /\ del' = DelRun(n, y, del.runs + 1, del.served)
    /\ UNCHANGED << resolverVars, met, cmp, dep >>

NextDelete ==
    \/ DeleteStart
    \/ \E b \in BOOLEAN : DeleteAnswer(b)
    \/ DeleteSend
    \/ DeleteDone
    \/ \E n \in ProjectNames : \E y \in BOOLEAN : DeleteRunAgain(n, y)

SpecDelete == InitDelete /\ [][NextDelete]_vars

(***************************************************************************)
(* The metrics dispatcher (getMetricsDispatcher, identify, sendEvent).     *)
(* Its code is not among the sources; the steps are those that its tests   *)
(* observe: the debug log lines and the requests that reach the server.    *)
(***************************************************************************)
EventNames == {"some-event", "deploy worker script"}

\* the events a dispatcher can be given: identify(), sendEvent(name)
MetEvents ==
    {[type |-> "identify", name |-> "identify"]}
        \cup { [type |-> "event", name |-> n] : n \in EventNames }

\* getMetricsDispatcher(options), with the global SPARROW_SOURCE_KEY set or
\* not, and a server that answers or a network that fails
InitMetrics ==
    /\ ResolverIdle
    /\ del = DelIdle
    /\ cmp = CmpIdle
    /\ dep = DepIdle
    /\ \E sm \in BOOLEAN : \E k \in BOOLEAN : \E ok \in BOOLEAN :
           met = [MetIdle EXCEPT !.pc = "ready", !.sendMetrics = sm,
                                 !.hasKey = k, !.netOk = ok]

\* variant: the request is sent whether or not dispatching is enabled
MetDispatch_IgnoresDisabled(e) ==
    /\ met.pc = "ready"
    /\ met.events < MaxEvents
    /\ met' = IF ~met.hasKey
              THEN [met EXCEPT !.type = e.type, !.name = e.name,
                               !.events = @ + 1,
                               !.debug = Append(@, << "no source key", e >>),
                               !.settled = "resolved"]
              ELSE [met EXCEPT !.type = e.type, !.name = e.name,
                               !.events = @ + 1,
                               !.debug = Append(@, << "posting", e >>),
                               !.requests = Append(@, e),
                               !.pending = Append(@, e),
                               !.settled = "resolved"]
    /\ UNCHANGED << resolverVars, del, cmp, dep >>

\* dispatcher.identify(properties) / dispatcher.sendEvent(name, properties):
\* the promise resolves once the event is logged and, if it is to be sent,
\* the request has been started (it is not awaited)
MetDispatch(e) ==
    /\ met.pc = "ready"
    /\ met.events < MaxEvents
    /\ met' = IF ~met.hasKey
              THEN [met EXCEPT !.type = e.type, !.name = e.name,
                               !.events = @ + 1,
                               !.debug = Append(@, << "no source key", e >>),
                               !.settled = "resolved"]
              ELSE IF ~met.sendMetrics
              THEN [met EXCEPT !.type = e.type, !.name = e.name,
                               !.events = @ + 1,
                               !.debug = Append(@, << "disabled", e >>),
                               !.settled = "resolved"]
              ELSE [met EXCEPT !.type = e.type, !.name = e.name,
                               !.events = @ + 1,
                               !.debug = Append(@, << "posting", e >>),
                               !.requests = Append(@, e),
                               !.pending = Append(@, e),
                               !.settled = "resolved"]
    /\ UNCHANGED << resolverVars, del, cmp, dep >>

\* the request of the oldest event in flight is answered, or fails
MetSettle ==
    /\ met.pending # << >>
    /\ met' = IF met.netOk
              THEN [met EXCEPT !.pending = Tail(@)]
              ELSE [met EXCEPT !.pending = Tail(@),
                               !.debug = Append(@, << "failed to send request",
                                                      Head(met.pending) >>)]
    /\ UNCHANGED << resolverVars, del, cmp, dep >>

NextMetrics ==
    \/ \E e \in MetEvents : MetDispatch(e)
    \/ MetSettle

SpecMetrics == InitMetrics /\ [][NextMetrics]_vars

(***************************************************************************)
(* The date test of impliedByAfterDate on two zero-padded ISO dates.       *)
(***************************************************************************)
\* calendar dates <<year, month, day>> whose strings are compared
CalendarDates ==
    {999, 1999, 2024, 2025, 9999} \X {1, 2, 9, 10, 12}
        \X {1, 2, 9, 10, 22, 23, 24, 31}

InitDates ==
    /\ ResolverIdle
    /\ del = DelIdle
    /\ met = MetIdle
    /\ dep = DepIdle
    /\ \E a \in CalendarDates : \E b \in CalendarDates :
           cmp = [CmpIdle EXCEPT !.pc = "compare", !.a = a, !.b = b]

\* date >= this.compatibilityDate, evaluated on the strings of a and b, in
\* both directions
CompareDates ==
    /\ cmp.pc = "compare"
    /\ cmp' = [cmp EXCEPT
           !.ge = StrGe(IsoDate(cmp.a[1], cmp.a[2], cmp.a[3]),
                        IsoDate(cmp.b[1], cmp.b[2], cmp.b[3])),
           !.le = StrGe(IsoDate(cmp.b[1], cmp.b[2], cmp.b[3]),
                        IsoDate(cmp.a[1], cmp.a[2], cmp.a[3])),
           !.pc = "done"]
    /\ UNCHANGED << resolverVars, del, met, dep >>

NextDates == CompareDates

SpecDates == InitDates /\ [][NextDates]_vars

(***************************************************************************)
(* deployHandler: the handler of wrangler deploy.  One action per call it  *)
(* awaits; the code between two awaits belongs to the action that follows. *)
(***************************************************************************)
\* the code unit of a character that toISOString puts between the numbers
LetterT == 84
Colon == 58
FullStop == 46
LetterZ == 90

\* Date.prototype.toISOString of the instant <<y, m, d, h, min, s, ms>> (UTC)
ToISOString(t) ==
    IsoDate(t[1], t[2], t[3])
        \o << LetterT, Digit(t[4] \div 10), Digit(t[4] % 10), Colon,
              Digit(t[5] \div 10), Digit(t[5] % 10), Colon,
              Digit(t[6] \div 10), Digit(t[6] % 10), FullStop,
              Digit(t[7] \div 100), Digit((t[7] \div 10) % 10),
              Digit(t[7] % 10), LetterZ >>

\* String.prototype.substring(start, end) with 0 <= start <= end
Substring(str, start, end) ==
    SubSeq(str, start + 1, IF end < Len(str) THEN end ELSE Len(str))

\* truthiness of an optional string: undefined and "" are falsy
TruthyString(x) == x.given /\ x.val # ""

\* truthiness of an optional boolean: undefined and false are falsy
TruthyBoolean(x) == x.given /\ x.val

\* variant: || in place of ??
NoBundle_Or(bundle, no_bundle) ==
    ~(IF TruthyBoolean(bundle) THEN TRUE ELSE ~TruthyBoolean(no_bundle))

\* !(args.bundle ?? !config.no_bundle)
NoBundle(bundle, no_bundle) ==
    ~(IF bundle.given THEN bundle.val ELSE ~TruthyBoolean(no_bundle))

\* variant: a --compatibility-date on the command line wins over --latest
DeployCompatibilityDate_CliFirst(a, clock) ==
    IF a.compatibilityDate.given THEN a.compatibilityDate
    ELSE IF a.latest THEN Some(Substring(ToISOString(clock), 0, 10))
    ELSE a.compatibilityDate

\* args.latest ? new Date().toISOString().substring(0, 10)
\*             : args.compatibilityDate
DeployCompatibilityDate(a, clock) ==
    IF a.latest THEN Some(Substring(ToISOString(clock), 0, 10))
    ELSE a.compatibilityDate

\* values of a string option: not given, empty, a path
StringOptions == { NoString, [given |-> TRUE, val |-> ""],
                   [given |-> TRUE, val |-> "dir"] }

\* values of a string option that is a path: not given, a path
PathOptions == { NoString, [given |-> TRUE, val |-> "dir"] }

\* values of a boolean option without default: not given, false, true
BooleanOptions == { NoBoolean, [given |-> TRUE, val |-> FALSE],
                    [given |-> TRUE, val |-> TRUE] }

\* --compatibility-date, --compatibility-flags and --node-compat as given
\* together on a command line
CompatOptions ==
    { << NoDate, NoList, NoBoolean >>,
      << Some(IsoDate(2024, 9, 22)), Some(<< "nodejs_compat" >>),
         [given |-> TRUE, val |-> TRUE] >> }

DeployArgs ==
    { [NoDeployArgs EXCEPT
           !.publish = publish, !.script = script, !.public = public,
           !.experimentalPublic = experimentalPublic,
           !.legacyAssets = legacyAssets, !.site = site, !.latest = latest,
           !.dryRun = dryRun, !.bundle = bundle,
           !.compatibilityDate = compat[1], !.compatibilityFlags = compat[2],
           !.nodeCompat = compat[3]] :
        publish \in BOOLEAN, script \in BOOLEAN, public \in StringOptions,
        experimentalPublic \in PathOptions, legacyAssets \in StringOptions,
        site \in PathOptions, latest \in BOOLEAN,
        dryRun \in BooleanOptions, bundle \in BooleanOptions,
        compat \in CompatOptions }

\* configurations readConfig can return
Configs ==
    [legacy_assets : BOOLEAN, site : BOOLEAN,
     usage_model : { NoString, [given |-> TRUE, val |-> "bundled"] },
     no_bundle : BooleanOptions]

\* account ids requireAuth can return
AccountIds == { "account-1", "account-2" }

\* instants new Date() can give
Clocks == { << 2024, 9, 23, 23, 59, 59, 999 >>, << 2025, 1, 1, 0, 0, 0, 0 >> }

PublicRenamed == "The --public field has been renamed to --assets"
ExperimentalPublicRenamed ==
    "The --experimental-public field has been renamed to --assets"
AssetsAndSites == "Cannot use Assets and Workers Sites in the same Worker."

\* the messages of the UserErrors deployHandler throws
UserErrors == { PublicRenamed, ExperimentalPublicRenamed, AssetsAndSites }

\* the error of a call that deployHandler awaits and that fails
CallFailed == "call failed"

InitDeploy ==
    /\ ResolverIdle
    /\ del = DelIdle
    /\ met = MetIdle
    /\ cmp = CmpIdle
    /\ \E a \in DeployArgs : dep = DepAt("printWranglerBanner", a)

DeployFrame == UNCHANGED << resolverVars, del, met, cmp >>

\* await printWranglerBanner()
PrintWranglerBanner ==
    /\ dep.pc = "printWranglerBanner"
    /\ dep' = [dep EXCEPT !.trace = Append(@, "printWranglerBanner"),
                          !.pc = "readConfig"]
    /\ DeployFrame

\* the warning for wrangler publish, then readConfig(configPath, args)
ReadConfig(config) ==
    /\ dep.pc = "readConfig"
    /\ dep' = [dep EXCEPT
           !.warnings = IF dep.args.publish THEN Append(@, "publish") ELSE @,
           !.config = config,
           !.trace = Append(@, "readConfig"),
           !.pc = "getEntry"]
    /\ DeployFrame

\* await getEntry(args, config, "deploy")
GetEntry ==
    /\ dep.pc = "getEntry"
    /\ dep' = [dep EXCEPT !.trace = Append(@, "getEntry"),
                          !.pc = "sendMetricsEvent"]
    /\ DeployFrame

\* the three tests that throw a UserError: the message thrown, "" if none
InvalidArguments(a, config) ==
    IF TruthyString(a.public) THEN PublicRenamed
    ELSE IF TruthyString(a.experimentalPublic) THEN ExperimentalPublicRenamed
    ELSE IF /\ (TruthyString(a.legacyAssets) \/ config.legacy_assets)
            /\ (TruthyString(a.site) \/ config.site)
         THEN AssetsAndSites
    ELSE ""

\* variant: the arguments are tested before the event is sent
SendMetricsEvent_AfterValidation ==
    /\ dep.pc = "sendMetricsEvent"
    /\ IF InvalidArguments(dep.args, dep.config) # ""
       THEN dep' = [dep EXCEPT
                !.error = InvalidArguments(dep.args, dep.config),
                !.trace = Append(@, "validate"),
                !.pc = "failed"]
       ELSE dep' = [dep EXCEPT !.trace = Append(@, "sendMetricsEvent"),
                               !.pc = "validate"]
    /\ DeployFrame

\* await metrics.sendMetricsEvent("deploy worker script", ...)
SendMetricsEvent ==
    /\ dep.pc = "sendMetricsEvent"
    /\ dep' = [dep EXCEPT !.trace = Append(@, "sendMetricsEvent"),
                          !.pc = "validate"]
    /\ DeployFrame

\* the warnings once the warning for --legacy-assets has been logged
WithLegacyAssetsWarning(a, warnings) ==
    IF TruthyString(a.legacyAssets) THEN Append(warnings, "legacyAssets")
    ELSE warnings

\* the warnings once the warning for --latest has been logged as well
WithLatestWarning(a, warnings) ==
    IF a.latest THEN Append(WithLegacyAssetsWarning(a, warnings), "latest")
    ELSE WithLegacyAssetsWarning(a, warnings)

\* variant: only the command line is looked at for assets and sites
Validate_ArgsOnly ==
    /\ dep.pc = "validate"
    /\ LET thrown == InvalidArguments(dep.args, NoConfig)
           warned == IF TruthyString(dep.args.legacyAssets)
                     THEN Append(dep.warnings, "legacyAssets")
                     ELSE dep.warnings
       IN  IF thrown # ""
           THEN dep' = [dep EXCEPT !.error = thrown,
                                   !.trace = Append(@, "validate"),
                                   !.pc = "failed"]
           ELSE dep' = [dep EXCEPT
                    !.warnings = IF dep.args.latest
                                 THEN Append(warned, "latest") ELSE warned,
                    !.trace = Append(@, "validate"),
                    !.pc = "requireAuth"]
    /\ DeployFrame

\* the tests of the arguments, and the warnings for --legacy-assets and
\* --latest
Validate ==
    /\ dep.pc = "validate"
    /\ LET thrown == InvalidArguments(dep.args, dep.config)
       IN  IF thrown # ""
           THEN dep' = [dep EXCEPT !.error = thrown,
                                   !.trace = Append(@, "validate"),
                                   !.pc = "failed"]
           ELSE dep' = [dep EXCEPT
                    !.warnings = WithLatestWarning(dep.args, @),
                    !.trace = Append(@, "validate"),
                    !.pc = "requireAuth"]
    /\ DeployFrame

\* args.legacyAssets || config.legacy_assets ? getAssetPaths(...)
\*                                           : getSiteAssetPaths(...)
AssetPaths(a, config) ==
    IF TruthyString(a.legacyAssets) \/ config.legacy_assets
    THEN "getAssetPaths" ELSE "getSiteAssetPaths"

\* const accountId = args.dryRun ? undefined : await requireAuth(config)
RequireAuth(id) ==
    /\ dep.pc = "requireAuth"
    /\ IF TruthyBoolean(dep.args.dryRun)
       THEN dep' = [dep EXCEPT !.accountId = NoString,
                               !.pc = "standardPricingWarning"]
       ELSE dep' = [dep EXCEPT !.accountId = [given |-> TRUE, val |-> id],
                               !.trace = Append(@, "requireAuth"),
                               !.pc = "standardPricingWarning"]
    /\ DeployFrame

\* variant: the warning does not depend on --dry-run
StandardPricingWarning_Always ==
    /\ dep.pc = "standardPricingWarning"
    /\ dep' = [dep EXCEPT
           !.warnings = IF dep.config.usage_model.given
                        THEN Append(@, "usage_model") ELSE @,
           !.trace = Append(@, "standardPricingWarning"),
           !.pc = "deploy"]
    /\ DeployFrame

\* if (!args.dryRun) await standardPricingWarning(config)
StandardPricingWarning ==
    /\ dep.pc = "standardPricingWarning"
    /\ IF TruthyBoolean(dep.args.dryRun)
       THEN dep' = [dep EXCEPT !.pc = "deploy"]
       ELSE dep' = [dep EXCEPT
                !.warnings = IF dep.config.usage_model.given
                             THEN Append(@, "usage_model") ELSE @,
                !.trace = Append(@, "standardPricingWarning"),
                !.pc = "deploy"]
    /\ DeployFrame

\* the object literal handed to deploy
DeployProps(clock) ==
    [called |-> TRUE,
     accountId |-> dep.accountId,
     compatibilityDate |-> DeployCompatibilityDate(dep.args, clock),
     compatibilityFlags |-> dep.args.compatibilityFlags,
     nodeCompat |-> dep.args.nodeCompat,
     isWorkersSite |-> TruthyString(dep.args.site) \/ dep.config.site,
     dryRun |-> dep.args.dryRun,
     noBundle |-> NoBundle(dep.args.bundle, dep.config.no_bundle),
     assetPaths |-> AssetPaths(dep.args, dep.config)]

\* await deploy({...}), the clock read while the argument is built
Deploy(clock) ==
    /\ dep.pc = "deploy"
    /\ dep' = [dep EXCEPT
           !.clock = IF dep.args.latest THEN clock ELSE NoClock,
           !.props = DeployProps(clock),
           !.trace = Append(@, "deploy"),
           !.pc = "done"]
    /\ DeployFrame

\* the calls of deployHandler that can throw (readConfig) or whose promise
\* can reject; deployHandler catches nothing, so its own promise rejects
\* with the same error
FailingCalls ==
    { "printWranglerBanner", "readConfig", "getEntry", "sendMetricsEvent",
      "requireAuth", "deploy" }

\* the call deployHandler is at fails: the call was made (deploy with its
\* argument built), and the handler ends with the error
CallFails ==
    /\ dep.pc \in FailingCalls
    /\ dep.pc = "requireAuth" => ~TruthyBoolean(dep.args.dryRun)
    /\ \E clock \in Clocks :
           dep' = [dep EXCEPT
               !.warnings = IF dep.pc = "readConfig" /\ dep.args.publish
                            THEN Append(@, "publish") ELSE @,
               !.clock = IF dep.pc = "deploy" /\ dep.args.latest
                         THEN clock ELSE @,
               !.props = IF dep.pc = "deploy" THEN DeployProps(clock) ELSE @,
               !.trace = Append(@, dep.pc),
               !.error = CallFailed,
               !.pc = "failed"]
    /\ DeployFrame

\* the handler ends with the error of a call that failed
Failed(d) == [d EXCEPT !.error = CallFailed, !.pc = "failed"]

\* logger.warn throws: the warning is not logged and the handler ends; in
\* standardPricingWarning its promise rejects
LoggerWarnThrows ==
    /\ \/ /\ dep.pc = "readConfig"
          /\ dep.args.publish
          /\ dep' = Failed(dep)
       \/ /\ dep.pc = "validate"
          /\ InvalidArguments(dep.args, dep.config) = ""
          /\ TruthyString(dep.args.legacyAssets)
          /\ dep' = Failed([dep EXCEPT !.trace = Append(@, "validate")])
       \/ /\ dep.pc = "validate"
          /\ InvalidArguments(dep.args, dep.config) = ""
          /\ dep.args.latest
          /\ dep' = Failed([dep EXCEPT
                 !.warnings = WithLegacyAssetsWarning(dep.args, @),
                 !.trace = Append(@, "validate")])
       \/ /\ dep.pc = "standardPricingWarning"
          /\ ~TruthyBoolean(dep.args.dryRun)
          /\ dep.config.usage_model.given
          /\ dep' = Failed([dep EXCEPT
                 !.trace = Append(@, "standardPricingWarning")])
    /\ DeployFrame

\* findWranglerToml(path.dirname(args.script)) throws: readConfig is not
\* called
FindWranglerTomlThrows ==
    /\ dep.pc = "readConfig"
    /\ dep.args.script
    /\ dep' = Failed([dep EXCEPT
           !.warnings = IF dep.args.publish THEN Append(@, "publish") ELSE @])
    /\ DeployFrame

\* collectKeyValues(args.var | args.define | args.alias) throws, after the
\* tests and the warnings
CollectKeyValuesThrows ==
    /\ dep.pc = "validate"
    /\ InvalidArguments(dep.args, dep.config) = ""
    /\ dep' = Failed([dep EXCEPT
           !.warnings = WithLatestWarning(dep.args, @),
           !.trace = Append(@, "validate")])
    /\ DeployFrame

\* getAssetPaths or getSiteAssetPaths throws: standardPricingWarning and
\* deploy are not called
GetAssetPathsThrows ==
    /\ dep.pc = "standardPricingWarning"
    /\ dep' = Failed(dep)
    /\ DeployFrame

\* getScriptName(args, config) or getRules(config) throws while the
\* argument of deploy is built: the clock is not read, deploy is not called
GetScriptNameThrows ==
    /\ dep.pc = "deploy"
    /\ dep' = Failed(dep)
    /\ DeployFrame

\* isLegacyEnv(config) throws while the argument of deploy is built: the
\* clock has been read, deploy is not called
IsLegacyEnvThrows(clock) ==
    /\ dep.pc = "deploy"
    /\ dep' = Failed([dep EXCEPT
           !.clock = IF dep.args.latest THEN clock ELSE NoClock])
    /\ DeployFrame

NextDeploy ==
    \/ PrintWranglerBanner
    \/ \E config \in Configs : ReadConfig(config)
    \/ GetEntry
    \/ SendMetricsEvent
    \/ Validate
    \/ \E id \in AccountIds : RequireAuth(id)
    \/ StandardPricingWarning
    \/ \E clock \in Clocks : Deploy(clock)
    \/ CallFails
    \/ LoggerWarnThrows
    \/ FindWranglerTomlThrows
    \/ CollectKeyValuesThrows
    \/ GetAssetPathsThrows
    \/ GetScriptNameThrows
    \/ \E clock \in Clocks : IsLegacyEnvThrows(clock)

SpecDeploy == InitDeploy /\ [][NextDeploy]_vars

(***************************************************************************)
(* Vocabulary of the properties, stated on the arguments of a call.        *)
(***************************************************************************)
\* the call of caller c has returned
Returned(c) == pc[c] = "done"

\* the set of tokens of the flag list that caller c passed
TokensOf(c) == { args[c].flags[i] : i \in 1..Len(args[c].flags) }

\* caller c passed the date string d
DateIs(c, d) == args[c].date.given /\ args[c].date.val = d

\* caller c passed a zero-padded ISO date that is earlier / later than d
DateBefore(c, d) ==
    /\ args[c].date.given
    /\ args[c].date.val \in IsoDates
    /\ StrLess(args[c].date.val, d)

DateAfter(c, d) ==
    /\ args[c].date.given
    /\ args[c].date.val \in IsoDates
    /\ StrLess(d, args[c].date.val)

\* nodejs_compat is in the list of caller c and no_nodejs_compat is not
CompatPresent(c) ==
    "nodejs_compat" \in TokensOf(c) /\ "no_nodejs_compat" \notin TokensOf(c)

\* caller c asked for the legacy mode: opts.nodeCompat is true
LegacyRequested(c) ==
    args[c].opts.given /\ args[c].opts.hasNodeCompat /\ args[c].opts.nodeCompat

\* the list l with the token tok inserted before position i
InsertAt(l, i, tok) == SubSeq(l, 1, i - 1) \o << tok >> \o SubSeq(l, i, Len(l))

\* the list l without its element at position i
RemoveAt(l, i) == SubSeq(l, 1, i - 1) \o SubSeq(l, i + 1, Len(l))

\* two results agree on the mode and on the three flags other than the
\* experimental one
SameButExperimental(r1, r2) ==
    /\ r1.mode = r2.mode
    /\ r1.hasNodejsAlsFlag = r2.hasNodejsAlsFlag
    /\ r1.hasNodejsCompatFlag = r2.hasNodejsCompatFlag
    /\ r1.hasNodejsCompatV2Flag = r2.hasNodejsCompatV2Flag

(***************************************************************************)
(* C1: for every compatibility date strictly earlier than "2024-09-23" and *)
(* every flag list where nodejs_compat is present and nodejs_compat_v2 is  *)
(* not in the list, getNodeCompat returns mode v1 with                     *)
(* hasNodejsCompatV2Flag false.  The code tests                            *)
(* "2024-09-23" >= compatibilityDate, so this fails.                       *)
(***************************************************************************)
C1_BeforeThresholdIsV1 ==
    \A c \in Callers :
        ( /\ Returned(c)
          /\ DateBefore(c, NodejsCompatV2Date)
          /\ CompatPresent(c)
          /\ "nodejs_compat_v2" \notin TokensOf(c) )
        => ( /\ result[c].mode = "v1"
             /\ result[c].hasNodejsCompatV2Flag = FALSE )

(***************************************************************************)
(* C2: for every compatibility date strictly later than "2024-09-23" and   *)
(* every flag list where nodejs_compat is present, getNodeCompat returns   *)
(* mode v2 with hasNodejsCompatV2Flag true.  Fails for the same reason.    *)
(***************************************************************************)
C2_AfterThresholdIsV2 ==
    \A c \in Callers :
        ( /\ Returned(c)
          /\ DateAfter(c, NodejsCompatV2Date)
          /\ CompatPresent(c) )
        => ( /\ result[c].mode = "v2"
             /\ result[c].hasNodejsCompatV2Flag = TRUE )

(***************************************************************************)
(* C3: for the compatibility date "2024-09-23" exactly and every flag list *)
(* where nodejs_compat is present, getNodeCompat returns mode v2.          *)
(***************************************************************************)
C3_OnThresholdIsV2 ==
    \A c \in Callers :
        ( /\ Returned(c)
          /\ DateIs(c, NodejsCompatV2Date)
          /\ CompatPresent(c) )
        => result[c].mode = "v2"

C3_Witness ==
    /\ Returned(MainCaller)
    /\ DateIs(MainCaller, NodejsCompatV2Date)
    /\ args[MainCaller].flags = << "nodejs_compat" >>
    /\ result[MainCaller].mode = "v2"
    /\ result[MainCaller].hasNodejsCompatV2Flag

(***************************************************************************)
(* C4: when the compatibility date is absent the default "2000-01-01" is   *)
(* used and the implication is inactive: with nodejs_compat present and    *)
(* nodejs_compat_v2 not in the list the result is mode v1 with             *)
(* hasNodejsCompatV2Flag false.  The default is used, but the implication  *)
(* fires for it, so this fails.                                            *)
(***************************************************************************)
C4_AbsentDateIsV1 ==
    \A c \in Callers :
        ( /\ Returned(c)
          /\ ~args[c].date.given
          /\ CompatPresent(c)
          /\ "nodejs_compat_v2" \notin TokensOf(c) )
        => ( /\ compatibilityDate[c] = IsoDate(2000, 1, 1)
             /\ result[c].mode = "v1"
             /\ result[c].hasNodejsCompatV2Flag = FALSE )

(***************************************************************************)
(* C5: the mode follows a strict priority, first match wins: v2 if         *)
(* hasNodejsCompatV2Flag, else v1 if hasNodejsCompatFlag, else als if      *)
(* hasNodejsAlsFlag, else legacy if nodeCompat is true, else null.         *)
(***************************************************************************)
C5_ModePriority ==
    \A c \in Callers :
        Returned(c) =>
            LET r == result[c] IN
            /\ r.hasNodejsCompatV2Flag => r.mode = "v2"
            /\ (~r.hasNodejsCompatV2Flag /\ r.hasNodejsCompatFlag)
                   => r.mode = "v1"
            /\ ( /\ ~r.hasNodejsCompatV2Flag
                 /\ ~r.hasNodejsCompatFlag
                 /\ r.hasNodejsAlsFlag ) => r.mode = "als"
            /\ ( /\ ~r.hasNodejsCompatV2Flag
                 /\ ~r.hasNodejsCompatFlag
                 /\ ~r.hasNodejsAlsFlag
                 /\ LegacyRequested(c) ) => r.mode = "legacy"
            /\ ( /\ ~r.hasNodejsCompatV2Flag
                 /\ ~r.hasNodejsCompatFlag
                 /\ ~r.hasNodejsAlsFlag
                 /\ ~LegacyRequested(c) ) => r.mode = Null

C5_Witness ==
    /\ Returned(MainCaller)
    /\ result[MainCaller].hasNodejsCompatV2Flag
    /\ result[MainCaller].hasNodejsCompatFlag
    /\ result[MainCaller].hasNodejsAlsFlag
    /\ LegacyRequested(MainCaller)
    /\ result[MainCaller].mode = "v2"

(***************************************************************************)
(* C6: negation wins.  For nodejs_als, nodejs_compat and nodejs_compat_v2  *)
(* the base presence of the flag (the value of the flag object that        *)
(* Flags.get returns, before any implication) is true exactly when the     *)
(* token is in the list and its no_ form is not; with both nodejs_compat   *)
(* and no_nodejs_compat in the list hasNodejsCompatFlag is false and the   *)
(* mode is not v1, at every date.                                          *)
(***************************************************************************)
C6_NegationWins ==
    \A c \in Callers :
        /\ pc[c] = "getAls" =>
               ( nodejsCompatFlag[c].value
                     <=> ( "nodejs_compat" \in TokensOf(c)
                           /\ "no_nodejs_compat" \notin TokensOf(c) ) )
        /\ pc[c] = "getV2" =>
               ( computed[c].hasNodejsAlsFlag
                     <=> ( "nodejs_als" \in TokensOf(c)
                           /\ "no_nodejs_als" \notin TokensOf(c) ) )
        /\ pc[c] = "implied" =>
               ( nodejsCompatV2Flag[c].value
                     <=> ( "nodejs_compat_v2" \in TokensOf(c)
                           /\ "no_nodejs_compat_v2" \notin TokensOf(c) ) )
        /\ Returned(c) =>
               /\ result[c].hasNodejsCompatFlag <=> CompatPresent(c)
               /\ result[c].hasNodejsAlsFlag
                      <=> ( "nodejs_als" \in TokensOf(c)
                            /\ "no_nodejs_als" \notin TokensOf(c) )
               /\ {"nodejs_compat", "no_nodejs_compat"} \subseteq TokensOf(c)
                      => ( /\ ~result[c].hasNodejsCompatFlag
                           /\ result[c].mode # "v1" )

C6_Witness ==
    /\ Returned(MainCaller)
    /\ args[MainCaller].flags =
           << "nodejs_compat", "no_nodejs_compat", "nodejs_compat" >>
    /\ ~result[MainCaller].hasNodejsCompatFlag
    /\ result[MainCaller].mode # "v1"

(***************************************************************************)
(* C7: a direct nodejs_compat_v2 opt-in overrides the date: for every      *)
(* compatibility date, absent or malformed ones included, if               *)
(* nodejs_compat_v2 is in the list and no_nodejs_compat_v2 is not, the     *)
(* mode is v2.                                                             *)
(***************************************************************************)
C7_DirectV2OptIn ==
    \A c \in Callers :
        ( /\ Returned(c)
          /\ "nodejs_compat_v2" \in TokensOf(c)
          /\ "no_nodejs_compat_v2" \notin TokensOf(c) )
        => result[c].mode = "v2"

C7_Witness ==
    /\ Returned(MainCaller)
    /\ ~args[MainCaller].date.given
    /\ args[MainCaller].flags = << "nodejs_compat_v2" >>
    /\ result[MainCaller].mode = "v2"

(***************************************************************************)
(* C8: legacy is a fallback only.  The mode is legacy exactly when         *)
(* opts.nodeCompat is true and none of the three flags resolves present;   *)
(* it is null exactly when none resolves present and nodeCompat is not     *)
(* true (false, not set, or opts omitted).  With an empty list the mode is *)
(* legacy for nodeCompat true and null otherwise.                          *)
(***************************************************************************)
C8_LegacyFallback ==
    \A c \in Callers :
        Returned(c) =>
            LET r == result[c]
                nonePresent ==
                    /\ ~r.hasNodejsCompatV2Flag
                    /\ ~r.hasNodejsCompatFlag
                    /\ ~r.hasNodejsAlsFlag
            IN  /\ r.mode = "legacy" <=> (LegacyRequested(c) /\ nonePresent)
                /\ r.mode = Null <=> (~LegacyRequested(c) /\ nonePresent)
                /\ args[c].flags = << >> =>
                       r.mode = IF LegacyRequested(c) THEN "legacy" ELSE Null

C8_Witness ==
    /\ Returned(MainCaller)
    /\ args[MainCaller].flags = << >>
    /\ LegacyRequested(MainCaller)
    /\ result[MainCaller].mode = "legacy"

(***************************************************************************)
(* C9: for every date, flag list and legacy option the call returns one    *)
(* mode, and it is one of legacy, als, v1, v2, null.                       *)
(***************************************************************************)
C9_ModeInEnumerator ==
    \A c \in Callers :
        Returned(c) => result[c].mode \in {"legacy", "als", "v1", "v2", "null"}

C9_Witness ==
    /\ Returned(MainCaller)
    /\ args[MainCaller].date.given
    /\ args[MainCaller].date.val \in MalformedDates
    /\ args[MainCaller].flags = << "unknown_flag", "no_nodejs_als" >>
    /\ result[MainCaller].mode = Null

(***************************************************************************)
(* C10: experimental:nodejs_compat_v2 never changes the mode.              *)
(* hasExperimentalNodejsCompatV2Flag is true exactly when the literal      *)
(* token is in the list, whatever the date and whether or not              *)
(* no_experimental:nodejs_compat_v2 is in the list; and inserting the      *)
(* token anywhere, or removing an occurrence of it, leaves the mode and    *)
(* the other three flags as they are.                                      *)
(***************************************************************************)
C10_ExperimentalIndependent ==
    \A c \in Callers :
        Returned(c) =>
            LET a == args[c] IN
            /\ result[c].hasExperimentalNodejsCompatV2Flag
                   <=> "experimental:nodejs_compat_v2" \in TokensOf(c)
            /\ \A i \in 1..(Len(a.flags) + 1) :
                   LET r2 == GetNodeCompat(a.date,
                                 InsertAt(a.flags, i,
                                          "experimental:nodejs_compat_v2"),
                                 a.opts)
                   IN  /\ SameButExperimental(result[c], r2)
                       /\ r2.hasExperimentalNodejsCompatV2Flag
            /\ \A i \in 1..Len(a.flags) :
                   a.flags[i] = "experimental:nodejs_compat_v2" =>
                       SameButExperimental(result[c],
                           GetNodeCompat(a.date, RemoveAt(a.flags, i), a.opts))

C10_Witness ==
    /\ Returned(MainCaller)
    /\ args[MainCaller].flags =
           << "no_experimental:nodejs_compat_v2", "nodejs_compat",
              "experimental:nodejs_compat_v2" >>
    /\ result[MainCaller].hasExperimentalNodejsCompatV2Flag
    /\ result[MainCaller].mode \in {"v1", "v2"}
(***************************************************************************)
(* C11: the result depends only on the set of tokens of the list:          *)
(* exchanging two neighbours (hence any permutation) or repeating a token  *)
(* of the list at any position gives the same mode and the same four       *)
(* flags, for every date and legacy option.                                *)
(***************************************************************************)
\* the list l with its elements at i and i + 1 exchanged
SwapAt(l, i) ==
    [k \in 1..Len(l) |-> IF k = i THEN l[i + 1] ELSE IF k = i + 1 THEN l[i]
                         ELSE l[k]]

C11_OrderAndDuplicates ==
    \A c \in Callers :
        Returned(c) =>
            LET a == args[c] IN
            /\ \A i \in 1..(Len(a.flags) - 1) :
                   GetNodeCompat(a.date, SwapAt(a.flags, i), a.opts) = result[c]
            /\ \A i \in 1..Len(a.flags) : \A j \in 1..(Len(a.flags) + 1) :
                   GetNodeCompat(a.date, InsertAt(a.flags, j, a.flags[i]),
                                 a.opts) = result[c]

C11_Witness ==
    /\ Returned(MainCaller)
    /\ args[MainCaller].flags =
           << "no_nodejs_compat", "nodejs_compat", "nodejs_als" >>
    /\ result[MainCaller].mode = "als"

(***************************************************************************)
(* C12: unrecognized tokens are ignored: inserting into the list a token   *)
(* that is none of the three flag names, their no_ forms and               *)
(* experimental:nodejs_compat_v2, or removing one, changes neither the     *)
(* mode nor any of the four flags.                                         *)
(***************************************************************************)
UnknownTokens ==
    {"unknown_flag", "nodejs_compat_v3", "NODEJS_COMPAT", "no_",
     "no_no_nodejs_compat", "no_experimental:nodejs_compat_v2"}

C12_UnknownTokensIgnored ==
    \A c \in Callers :
        Returned(c) =>
            LET a == args[c] IN
            /\ \A u \in UnknownTokens : \A j \in 1..(Len(a.flags) + 1) :
                   GetNodeCompat(a.date, InsertAt(a.flags, j, u), a.opts)
                       = result[c]
            /\ \A i \in 1..Len(a.flags) :
                   a.flags[i] \in UnknownTokens =>
                       GetNodeCompat(a.date, RemoveAt(a.flags, i), a.opts)
                           = result[c]

C12_Witness ==
    /\ Returned(MainCaller)
    /\ args[MainCaller].flags = << "unknown_flag", "nodejs_compat" >>
    /\ result[MainCaller].hasNodejsCompatFlag
    /\ result[MainCaller].mode \in {"v1", "v2"}

(***************************************************************************)
(* C13: getNodeCompat never throws and never returns a failure value, for  *)
(* every date string, malformed and empty ones included, and every flag    *)
(* list: a call that has not returned can always take its next step, what  *)
(* it returns is a mode and four booleans, and a malformed date only       *)
(* decides whether v2 is implied (the result is the one of a well-formed   *)
(* date for which v2 is implied, or of one for which it is not).           *)
(***************************************************************************)
C13_NeverThrows ==
    \A c \in Callers :
        /\ pc[c] \in {"idle", "done"} \/ ENABLED Next
        /\ Returned(c) =>
               /\ result[c].mode \in {"legacy", "als", "v1", "v2", "null"}
               /\ result[c].hasNodejsAlsFlag \in BOOLEAN
               /\ result[c].hasNodejsCompatFlag \in BOOLEAN
               /\ result[c].hasNodejsCompatV2Flag \in BOOLEAN
               /\ result[c].hasExperimentalNodejsCompatV2Flag \in BOOLEAN
        /\ (Returned(c) /\ args[c].date.given
                /\ args[c].date.val \in MalformedDates) =>
               result[c] \in
                   { GetNodeCompat(Some(d), args[c].flags, args[c].opts) :
                         d \in {IsoDate(2000, 1, 1), IsoDate(2025, 1, 1)} }

C13_Witness ==
    /\ Returned(MainCaller)
    /\ DateIs(MainCaller, << >>)
    /\ args[MainCaller].flags = << "nodejs_compat", "unknown_flag" >>
    /\ result[MainCaller].mode \in {"v1", "v2"}

(***************************************************************************)
(* C14: resolution is deterministic: two calls with equal date, flag list  *)
(* and nodeCompat option return equal mode and flags, whatever calls were  *)
(* made before them.                                                       *)
(***************************************************************************)
C14_Deterministic ==
    \A i \in 1..Len(history) : \A j \in 1..Len(history) :
        history[i].args = history[j].args
            => history[i].result = history[j].result

C14_Witness ==
    /\ Len(history) = 3
    /\ history[1].args = history[3].args
    /\ history[2].args # history[1].args
    /\ history[1].result.mode = Null
    /\ history[2].result.mode = "v2"
    /\ history[3].result.mode = Null

(***************************************************************************)
(* C15: getNodeCompat has no side effect on its inputs: no step changes    *)
(* the flag list, the date or the opts object that the caller passed, and  *)
(* the Flags instance keeps the list and the date it was constructed with. *)
(***************************************************************************)
C15_InputsUnchanged ==
    [][ \A c \in Callers :
            /\ args'[c] = args[c]
            /\ pc[c] \notin {"idle", "call", "newFlags"} =>
                   /\ flagsObj'[c] = flagsObj[c]
                   /\ flagsObj[c].flags = args[c].flags ]_vars

C15_Witness ==
    /\ Returned(MainCaller)
    /\ args[MainCaller].flags = << "nodejs_compat" >>
    /\ DateIs(MainCaller, IsoDate(2024, 9, 22))
    /\ result[MainCaller].hasNodejsCompatV2Flag
    /\ flagsObj[MainCaller].flags = << "nodejs_compat" >>

(***************************************************************************)
(* C16: calls whose steps interleave arbitrarily each return the result    *)
(* they return when run alone: the flag objects of a call hold values      *)
(* computed from the arguments of that call only, whatever the other call  *)
(* has done meanwhile.                                                     *)
(***************************************************************************)
C16_InterleavedCallsIndependent ==
    \A c \in Callers :
        /\ pc[c] \in {"getAls", "getV2", "implied"} =>
               nodejsCompatFlag[c].value
                   = ( "nodejs_compat" \in TokensOf(c)
                       /\ "no_nodejs_compat" \notin TokensOf(c) )
        /\ pc[c] = "implied" =>
               nodejsCompatV2Flag[c].value
                   = ( "nodejs_compat_v2" \in TokensOf(c)
                       /\ "no_nodejs_compat_v2" \notin TokensOf(c) )
        /\ Returned(c) =>
               result[c] = GetNodeCompat(args[c].date, args[c].flags,
                                         args[c].opts)

C16_Witness ==
    /\ Returned(MainCaller)
    /\ pc[OtherCaller] = "implied"
    /\ args[MainCaller].flags = << "nodejs_compat_v2" >>
    /\ args[OtherCaller].flags = << >>
    /\ result[MainCaller].mode = "v2"
    /\ nodejsCompatV2Flag[MainCaller].value
    /\ ~nodejsCompatV2Flag[OtherCaller].value
(***************************************************************************)
(* C19: the closure-based code is equivalent to the pure two-step          *)
(* evaluation: for every date, flag list and legacy option getNodeCompat   *)
(* returns the mode and the four flags of the reference that computes the  *)
(* base presence of each flag and then sets                                *)
(* v2 = base(nodejs_compat_v2) OR (base(nodejs_compat) AND                 *)
(* compatibilityDate >= "2024-09-23").  The code compares the two dates    *)
(* the other way round, so this fails.                                     *)
(***************************************************************************)
\* base presence of a flag in the list of caller c
BasePresence(c, name, noName) ==
    name \in TokensOf(c) /\ noName \notin TokensOf(c)

\* the reference of the two-step evaluation, on the arguments of caller c
Reference(c) ==
    LET date == IF args[c].date.given THEN args[c].date.val
                ELSE IsoDate(2000, 1, 1)
        als == BasePresence(c, "nodejs_als", "no_nodejs_als")
        compat == BasePresence(c, "nodejs_compat", "no_nodejs_compat")
        v2 == \/ BasePresence(c, "nodejs_compat_v2", "no_nodejs_compat_v2")
              \/ (compat /\ ~StrLess(date, IsoDate(2024, 9, 23)))
    IN  [mode |-> IF v2 THEN "v2"
                  ELSE IF compat THEN "v1"
                  ELSE IF als THEN "als"
                  ELSE IF LegacyRequested(c) THEN "legacy"
                  ELSE "null",
         hasNodejsAlsFlag |-> als,
         hasNodejsCompatFlag |-> compat,
         hasNodejsCompatV2Flag |-> v2,
         hasExperimentalNodejsCompatV2Flag |->
             "experimental:nodejs_compat_v2" \in TokensOf(c)]

C19_EquivalentToReference ==
    \A c \in Callers : Returned(c) => result[c] = Reference(c)

(***************************************************************************)
(* C20: the v2 upgrade is monotone in the date: for a fixed flag list and  *)
(* legacy option, if the mode is v2 at the compatibility date d, it is v2  *)
(* at every later date d' >= d.  With the reversed date test v2 is lost at *)
(* later dates, so this fails.                                             *)
(***************************************************************************)
C20_MonotoneInDate ==
    \A c \in Callers :
        ( /\ Returned(c)
          /\ args[c].date.given
          /\ args[c].date.val \in IsoDates
          /\ result[c].mode = "v2" )
        => \A d2 \in IsoDates :
               ~StrLess(d2, args[c].date.val) =>
                   GetNodeCompat(Some(d2), args[c].flags, args[c].opts).mode
                       = "v2"
(***************************************************************************)
(* C17: "pages project delete <name>" sends the DELETE request for the     *)
(* project only after the user has confirmed the prompt, or when --yes was *)
(* given, and then no prompt is asked; when the confirmation is refused no *)
(* DELETE request is sent and nothing is printed.                          *)
(***************************************************************************)
C17_DeleteOnlyWhenConfirmed ==
    /\ del.requests # << >> =>
           /\ del.yes \/ del.answer = "confirmed"
           /\ del.requests = << [method |-> "DELETE", project |-> del.name] >>
    /\ del.yes => (del.prompts = << >> /\ del.answer = "none")
    /\ del.answer # "none" => del.prompts = << del.name >>
    /\ del.answer = "refused" =>
           (del.requests = << >> /\ del.out = << >> /\ del.pc = "exit")
    /\ del.pc = "exit" /\ (del.yes \/ del.answer = "confirmed") =>
           /\ Len(del.requests) = 1
           /\ del.out = << << "Deleting", del.name >>,
                           << "Successfully deleted", del.name >> >>

C17_Witness ==
    /\ del.pc = "exit"
    /\ del.runs = 2
    /\ del.served = << "some-project-name" >>
    /\ del.name = "some-project-name-2"
    /\ ~del.yes
    /\ del.answer = "refused"
    /\ del.requests = << >>
    /\ del.out = << >>

(***************************************************************************)
(* C18: the metrics dispatcher sends no HTTP request for identify() or     *)
(* sendEvent() when dispatching is disabled or no source key is set: it    *)
(* only writes a debug log; and a failed request is logged at debug level  *)
(* without rejecting the caller.                                           *)
(***************************************************************************)
C18_NoRequestWhenDisabled ==
    /\ (~met.sendMetrics \/ ~met.hasKey) =>
           /\ met.requests = << >>
           /\ met.pending = << >>
           /\ Len(met.debug) = met.events
           /\ \A i \in 1..Len(met.debug) :
                  met.debug[i][1] \in {"disabled", "no source key"}
    /\ met.warn = << >>
    /\ met.settled # "rejected"
    /\ met.events > 0 => met.settled = "resolved"
    /\ (met.sendMetrics /\ met.hasKey /\ ~met.netOk) =>
           Len(met.debug) = 2 * Len(met.requests) - Len(met.pending)

C18_Witness ==
    /\ met.sendMetrics /\ met.hasKey /\ ~met.netOk
    /\ met.events = 1
    /\ met.pending = << >>
    /\ met.requests = << [type |-> "event", name |-> "some-event"] >>
    /\ met.debug[2][1] = "failed to send request"
    /\ met.settled = "resolved"
(***************************************************************************)
(* C21: the date test of the implication is a lexicographic comparison of  *)
(* the two date strings, and for every pair of zero-padded YYYY-MM-DD      *)
(* dates it agrees with the calendar order: earlier, equal, later.         *)
(***************************************************************************)
\* calendar order on <<year, month, day>>
CalendarBefore(a, b) ==
    \/ a[1] < b[1]
    \/ (a[1] = b[1] /\ a[2] < b[2])
    \/ (a[1] = b[1] /\ a[2] = b[2] /\ a[3] < b[3])

C21_LexicographicIsCalendarOrder ==
    cmp.pc = "done" =>
        /\ cmp.ge <=> ~CalendarBefore(cmp.a, cmp.b)
        /\ cmp.le <=> ~CalendarBefore(cmp.b, cmp.a)
        /\ (cmp.ge /\ cmp.le) <=> cmp.a = cmp.b

C21_Witness ==
    /\ cmp.pc = "done"
    /\ cmp.a = << 2024, 9, 23 >>
    /\ cmp.b = << 2024, 10, 2 >>
    /\ ~cmp.ge
    /\ cmp.le

(***************************************************************************)
(* C22: the returned mode is consistent with the returned flags: v2 iff    *)
(* hasNodejsCompatV2Flag; v1 iff hasNodejsCompatFlag and not               *)
(* hasNodejsCompatV2Flag; als iff hasNodejsAlsFlag and neither of the      *)
(* other two; legacy or null only when all three are false.                *)
(***************************************************************************)
C22_ModeConsistentWithFlags ==
    \A c \in Callers :
        Returned(c) =>
            LET r == result[c] IN
            /\ r.mode = "v2" <=> r.hasNodejsCompatV2Flag
            /\ r.mode = "v1"
                   <=> (r.hasNodejsCompatFlag /\ ~r.hasNodejsCompatV2Flag)
            /\ r.mode = "als"
                   <=> ( /\ r.hasNodejsAlsFlag
                         /\ ~r.hasNodejsCompatFlag
                         /\ ~r.hasNodejsCompatV2Flag )
            /\ r.mode \in {"legacy", "null"}
                   => ( /\ ~r.hasNodejsAlsFlag
                        /\ ~r.hasNodejsCompatFlag
                        /\ ~r.hasNodejsCompatV2Flag )

C22_Witness ==
    /\ Returned(MainCaller)
    /\ result[MainCaller].mode = "v1"
    /\ result[MainCaller].hasNodejsAlsFlag
    /\ result[MainCaller].hasNodejsCompatFlag
    /\ ~result[MainCaller].hasNodejsCompatV2Flag

(***************************************************************************)
(* C23: the compatibility date influences only hasNodejsCompatV2Flag (and  *)
(* through it the mode): for a fixed flag list hasNodejsAlsFlag,           *)
(* hasNodejsCompatFlag and hasExperimentalNodejsCompatV2Flag are the same  *)
(* at every date, and hasNodejsCompatFlag stays true when v2 is implied    *)
(* from it: impliedByAfterDate writes only the flag object it is called    *)
(* on.                                                                     *)
(***************************************************************************)
C23_DateOnlyAffectsV2 ==
    \A c \in Callers :
        /\ Returned(c) =>
               \A d \in DateArgs :
                   LET r2 == GetNodeCompat(d, args[c].flags, args[c].opts)
                   IN  /\ r2.hasNodejsAlsFlag = result[c].hasNodejsAlsFlag
                       /\ r2.hasNodejsCompatFlag = result[c].hasNodejsCompatFlag
                       /\ r2.hasExperimentalNodejsCompatV2Flag
                              = result[c].hasExperimentalNodejsCompatV2Flag
        /\ pc[c] \in {"experimental", "mode", "return", "done"} =>
               /\ nodejsCompatFlag[c].value = CompatPresent(c)
               /\ computed[c].hasNodejsCompatFlag = CompatPresent(c)
        /\ ( /\ Returned(c)
             /\ result[c].hasNodejsCompatV2Flag
             /\ "nodejs_compat_v2" \notin TokensOf(c) )
           => result[c].hasNodejsCompatFlag

C23_Witness ==
    /\ Returned(MainCaller)
    /\ DateIs(MainCaller, IsoDate(2024, 9, 23))
    /\ args[MainCaller].flags = << "nodejs_compat", "nodejs_als" >>
    /\ result[MainCaller].hasNodejsCompatV2Flag
    /\ result[MainCaller].hasNodejsCompatFlag
    /\ nodejsCompatFlag[MainCaller].value

(***************************************************************************)
(* C24: the implication is driven by the resolved nodejs_compat value, not *)
(* by the bare token: whenever no_nodejs_compat is in the list and         *)
(* nodejs_compat_v2 is not base-present, hasNodejsCompatV2Flag is false    *)
(* and the mode is neither v1 nor v2, at every date.                       *)
(***************************************************************************)
C24_ImplicationFromResolvedValue ==
    \A c \in Callers :
        ( /\ Returned(c)
          /\ "no_nodejs_compat" \in TokensOf(c)
          /\ ~( "nodejs_compat_v2" \in TokensOf(c)
                /\ "no_nodejs_compat_v2" \notin TokensOf(c) ) )
        => ( /\ ~result[c].hasNodejsCompatV2Flag
             /\ result[c].mode \notin {"v1", "v2"} )

C24_Witness ==
    /\ Returned(MainCaller)
    /\ DateIs(MainCaller, IsoDate(2024, 9, 23))
    /\ args[MainCaller].flags = << "nodejs_compat", "no_nodejs_compat" >>
    /\ ~result[MainCaller].hasNodejsCompatV2Flag
    /\ result[MainCaller].mode = Null

(***************************************************************************)
(* C25: no_nodejs_compat_v2 cancels only an explicit nodejs_compat_v2      *)
(* token, it does not suppress the implication: when nodejs_compat is      *)
(* present and the date condition of the implication holds (the            *)
(* compatibility date is "2024-09-23" or later), hasNodejsCompatV2Flag is  *)
(* true and the mode is v2, even if no_nodejs_compat_v2 is in the list.    *)
(* The code returns v1 for ["nodejs_compat", "no_nodejs_compat_v2"] at     *)
(* "2025-01-01": its date test is the reverse one (see C1, C2).            *)
(***************************************************************************)
C25_NegatedV2StillImplied ==
    \A c \in Callers :
        ( /\ Returned(c)
          /\ CompatPresent(c)
          /\ StrGe(compatibilityDate[c], IsoDate(2024, 9, 23)) )
        => ( /\ result[c].hasNodejsCompatV2Flag
             /\ result[c].mode = "v2" )

(***************************************************************************)
(* Vocabulary of the properties of deployHandler.                          *)
(***************************************************************************)
\* deployHandler has called the step
Called(step) == \E i \in 1..Len(dep.trace) : dep.trace[i] = step

\* the warning has been logged
Warned(w) == \E i \in 1..Len(dep.warnings) : dep.warnings[i] = w

\* readConfig has returned
ConfigRead ==
    \/ Called("getEntry")
    \/ (Called("readConfig") /\ dep.pc # "failed")

\* the steps that are ordered, in their order
OrderedSteps ==
    << "printWranglerBanner", "readConfig", "getEntry", "sendMetricsEvent",
       "validate", "requireAuth", "deploy" >>

\* the position of a step in the order
StepRank(step) ==
    CHOOSE i \in 1..Len(OrderedSteps) : OrderedSteps[i] = step

IsOrderedStep(step) == \E i \in 1..Len(OrderedSteps) : OrderedSteps[i] = step

(***************************************************************************)
(* C26: deployHandler rejects invalid argument combinations before         *)
(* deploying: if --public is set, if --experimental-public is set, or if   *)
(* legacy assets (CLI or config) and a Workers Site (CLI or config) are    *)
(* both configured, it throws a UserError and neither requireAuth nor      *)
(* deploy is ever called in that invocation.  An option is set when its    *)
(* value is truthy.                                                        *)
(***************************************************************************)
C26_InvalidArgumentsRejected ==
    ( /\ ConfigRead
      /\ \/ TruthyString(dep.args.public)
         \/ TruthyString(dep.args.experimentalPublic)
         \/ /\ (TruthyString(dep.args.legacyAssets) \/ dep.config.legacy_assets)
            /\ (TruthyString(dep.args.site) \/ dep.config.site) )
    => /\ ~Called("requireAuth")
       /\ ~Called("deploy")
       /\ ~dep.props.called
       /\ dep.pc \notin {"requireAuth", "standardPricingWarning", "deploy",
                         "done"}
       /\ Called("validate") => (dep.pc = "failed" /\ dep.error \in UserErrors)
       /\ dep.error = PublicRenamed => TruthyString(dep.args.public)
       /\ dep.error = ExperimentalPublicRenamed
              => TruthyString(dep.args.experimentalPublic)

C26_Witness ==
    /\ dep.pc = "failed"
    /\ dep.error = AssetsAndSites
    /\ ~TruthyString(dep.args.legacyAssets)
    /\ dep.config.legacy_assets
    /\ TruthyString(dep.args.site)
    /\ ~dep.config.site
    /\ ~Called("requireAuth")
    /\ ~Called("deploy")

(***************************************************************************)
(* C27: with --dry-run, deployHandler never calls requireAuth, passes      *)
(* accountId undefined to deploy and does not emit the usage_model         *)
(* deprecation warning; without --dry-run, requireAuth has completed       *)
(* before deploy is called and deploy receives the account id it           *)
(* returned.                                                               *)
(***************************************************************************)
C27_DryRunSkipsAuth ==
    /\ TruthyBoolean(dep.args.dryRun) =>
           /\ ~Called("requireAuth")
           /\ ~Called("standardPricingWarning")
           /\ ~Warned("usage_model")
           /\ dep.accountId = NoString
           /\ dep.props.called => dep.props.accountId = NoString
    /\ ( /\ ~TruthyBoolean(dep.args.dryRun)
         /\ (dep.pc \in {"deploy", "done"} \/ dep.props.called) ) =>
           /\ \E i \in 1..Len(dep.trace) :
                  /\ dep.trace[i] = "requireAuth"
                  /\ \A j \in 1..Len(dep.trace) :
                         dep.trace[j] = "deploy" => i < j
           /\ dep.accountId.given
           /\ dep.accountId.val \in AccountIds
           /\ dep.props.called => dep.props.accountId = dep.accountId
           /\ Warned("usage_model") <=> dep.config.usage_model.given

C27_Witness ==
    /\ dep.pc = "done"
    /\ TruthyBoolean(dep.args.dryRun)
    /\ dep.config.usage_model.given
    /\ dep.props.called
    /\ dep.props.accountId = NoString
    /\ ~Warned("usage_model")
    /\ ~Called("requireAuth")

(***************************************************************************)
(* C28: with --latest, the compatibilityDate passed to deploy is the       *)
(* current date (the first 10 characters of the ISO timestamp), whatever   *)
(* --compatibility-date says, and a warning is logged; without --latest    *)
(* the CLI compatibility date is passed unchanged.  The compatibility      *)
(* flags and nodeCompat are passed unchanged in both cases.                *)
(***************************************************************************)
C28_LatestOverridesDate ==
    dep.props.called =>
        /\ dep.args.latest =>
               /\ dep.clock \in Clocks
               /\ dep.props.compatibilityDate =
                      Some(IsoDate(dep.clock[1], dep.clock[2], dep.clock[3]))
               /\ Len(dep.props.compatibilityDate.val) = 10
               /\ Warned("latest")
        /\ ~dep.args.latest =>
               /\ dep.props.compatibilityDate = dep.args.compatibilityDate
               /\ ~Warned("latest")
        /\ dep.props.compatibilityFlags = dep.args.compatibilityFlags
        /\ dep.props.nodeCompat = dep.args.nodeCompat

C28_Witness ==
    /\ dep.pc = "done"
    /\ dep.args.latest
    /\ dep.args.compatibilityDate = Some(IsoDate(2024, 9, 22))
    /\ dep.clock = << 2025, 1, 1, 0, 0, 0, 0 >>
    /\ dep.props.compatibilityDate = Some(IsoDate(2025, 1, 1))
    /\ dep.props.compatibilityFlags = Some(<< "nodejs_compat" >>)
    /\ Warned("latest")

(***************************************************************************)
(* C29: the noBundle value passed to deploy gives the CLI precedence over  *)
(* the config: when --bundle/--no-bundle was given, noBundle is the        *)
(* negation of args.bundle whatever config.no_bundle is; when it was not   *)
(* given, noBundle is true exactly when config.no_bundle is truthy.        *)
(***************************************************************************)
C29_CliBundleWins ==
    dep.props.called =>
        /\ dep.args.bundle.given => dep.props.noBundle = ~dep.args.bundle.val
        /\ ~dep.args.bundle.given =>
               dep.props.noBundle = ( /\ dep.config.no_bundle.given
                                      /\ dep.config.no_bundle.val )

C29_Witness ==
    /\ dep.pc = "done"
    /\ dep.args.bundle = [given |-> TRUE, val |-> FALSE]
    /\ dep.config.no_bundle = [given |-> TRUE, val |-> FALSE]
    /\ dep.props.noBundle

(***************************************************************************)
(* C30: in every deployHandler run the steps occur in the order banner,    *)
(* read config, resolve entry, send the "deploy worker script" metrics     *)
(* event, argument validation, requireAuth (unless dry-run), deploy; so    *)
(* the metrics event is sent also for invocations that then fail           *)
(* validation, and deploy is called at most once and only as the last      *)
(* step.                                                                   *)
(***************************************************************************)
C30_StepOrder ==
    /\ \A i \in 1..Len(dep.trace) : \A j \in 1..Len(dep.trace) :
           ( /\ i < j
             /\ IsOrderedStep(dep.trace[i])
             /\ IsOrderedStep(dep.trace[j]) )
           => StepRank(dep.trace[i]) < StepRank(dep.trace[j])
    /\ \A i \in 1..Len(dep.trace) :
           ( /\ IsOrderedStep(dep.trace[i])
             /\ dep.trace[i] # "requireAuth" )
           => \A k \in 1..(StepRank(dep.trace[i]) - 1) :
                  OrderedSteps[k] # "requireAuth" => Called(OrderedSteps[k])
    /\ Called("deploy") =>
           ( /\ ~TruthyBoolean(dep.args.dryRun) <=> Called("requireAuth") )
    /\ dep.error \in UserErrors =>
           ( /\ Called("sendMetricsEvent")
             /\ dep.trace[Len(dep.trace)] = "validate" )
    /\ \A i \in 1..Len(dep.trace) :
           dep.trace[i] = "deploy" =>
               /\ i = Len(dep.trace)
               /\ dep.props.called
               /\ \/ dep.pc = "done"
                  \/ (dep.pc = "failed" /\ dep.error = CallFailed)
    /\ dep.pc = "done" => Called("deploy")
    /\ dep.props.called => Called("deploy")

C30_Witness ==
    /\ dep.pc = "failed"
    /\ dep.error = PublicRenamed
    /\ dep.trace = << "printWranglerBanner", "readConfig", "getEntry",
                      "sendMetricsEvent", "validate" >>
    /\ ~dep.props.called
====
